---- MODULE Spec2Model ----
(***************************************************************************)
(* A model of countdown_solver.py: the subset index built by               *)
(* Solutions.unique_groups, the partitioning and the calculations of each  *)
(* Group, Calculation.generate / operations, and the best-result search of *)
(* countdown_solver.                                                       *)
(*                                                                         *)
(* Tuples of numbers are sequences, the dictionary all_groups is the       *)
(* sequence of its Groups in insertion order (the order .values() walks),  *)
(* a reference to a Group is its position in that sequence, and an         *)
(* expression is a string built exactly as the f-strings build it.         *)
(***************************************************************************)
EXTENDS Integers, Sequences, FiniteSets, TLC

(* ---------------- bounds of the model ---------------- *)
(* at most MaxLen numbers, each in 1..MaxVal, adding up to at most MaxSum;  *)
(* targets in 0..MaxTarget                                                 *)
MaxLen == 4
MaxVal == 3
MaxSum == 8
MaxTarget == 2

(* Python's None, as returned by halfbinom for odd n and as the fill       *)
(* value of zip_longest.                                                   *)
None == 0 - 1

(* argv                 the numbers on the command line (unsorted_numbers) *)
(* target               the target on the command line                     *)
(* all_numbers          Solutions.all_numbers, <<>> before Solutions is    *)
(*                      constructed                                        *)
(* m, comb              unique_groups: the size m of the outer loop and    *)
(*                      the index tuple of the combination the inner loop  *)
(*                      looks at next (<<>>: combinations(.., m) exhausted)*)
(* all_groups           the dictionary, as the list of its Groups          *)
(* pc                   "parse", "build", "walk", "done", or "KeyError"    *)
(*                      when a lookup in a Group constructor failed        *)
(* gi                   walk(): the position of the Group yielded from next*)
(* smallest_difference,                                                    *)
(* bestresults          the locals of countdown_solver                     *)
VARIABLES argv, target, all_numbers, m, comb, all_groups, pc, gi,
          smallest_difference, bestresults

vars == <<argv, target, all_numbers, m, comb, all_groups, pc, gi,
          smallest_difference, bestresults>>

(* ---------------- library functions the code calls ---------------- *)

(* abs() *)
Abs(x) == IF x < 0 THEN 0 - x ELSE x

(* first index tuple of itertools.combinations(range(n), r), 1-based *)
FirstComb(r) == [p \in 1..r |-> p]

(* the rightmost position of idx that is not at its maximum, 0 if none *)
Pivot(idx, n) ==
    LET r == Len(idx)
        movable == {p \in 1..r : idx[p] # p + n - r}
    IN  IF movable = {} THEN 0
        ELSE CHOOSE p \in movable : \A q \in movable : q <= p

(* the successor of idx in itertools.combinations, <<>> when exhausted *)
NextComb(idx, n) ==
    LET i == Pivot(idx, n)
    IN  IF i = 0 THEN <<>>
        ELSE [p \in 1..Len(idx) |->
                 IF p < i THEN idx[p] ELSE idx[i] + 1 + (p - i)]

(* the tuple itertools.combinations yields for the index tuple idx *)
Pick(numbers, idx) == [p \in 1..Len(idx) |-> numbers[idx[p]]]

RECURSIVE CombsFrom(_, _)
CombsFrom(idx, n) ==
    IF idx = <<>> THEN <<>>
    ELSE <<idx>> \o CombsFrom(NextComb(idx, n), n)

(* list(combinations(numbers, r)), in the order itertools yields them *)
Combinations(numbers, r) ==
    IF r > Len(numbers) THEN <<>>
    ELSE LET idxs == CombsFrom(FirstComb(r), Len(numbers))
         IN  [c \in 1..Len(idxs) |-> Pick(numbers, idxs[c])]

(* sorted(unsorted_numbers, reverse=True): insertion into a descending list *)
RECURSIVE InsertDesc(_, _)
InsertDesc(x, s) ==
    IF s = <<>> THEN <<x>>
    ELSE IF x > Head(s) THEN <<x>> \o s
    ELSE <<Head(s)>> \o InsertDesc(x, Tail(s))

RECURSIVE SortedDesc(_)
SortedDesc(s) ==
    IF s = <<>> THEN <<>>
    ELSE InsertDesc(Head(s), SortedDesc(Tail(s)))

(* ---------------- Group: static helpers ---------------- *)

(* filtering with the advance of k lost: every element equal to the first  *)
(* chosen one is removed and nothing else                                  *)
filteringStuck(iterable, elements) ==
    IF elements = <<>> THEN iterable
    ELSE SelectSeq(iterable, LAMBDA n : n # Head(elements))

(* filtering by membership: every occurrence of a chosen value is removed *)
filteringAll(iterable, elements) ==
    SelectSeq(iterable, LAMBDA n : \A e \in 1..Len(elements) : elements[e] # n)

(* Group.filtering: walk iterable, k is the next element still to remove *)
RECURSIVE filtering(_, _)
filtering(iterable, elements) ==
    IF iterable = <<>> THEN <<>>
    ELSE IF elements # <<>> /\ Head(iterable) = Head(elements)
         THEN filtering(Tail(iterable), Tail(elements))
         ELSE <<Head(iterable)>> \o filtering(Tail(iterable), elements)

(* the loop of Group.halfbinom: after step l, prod = (prod * (n+1-l)) // l *)
RECURSIVE halfbinomLoop(_, _, _, _)
halfbinomLoop(n, k, l, prod) ==
    IF l > k THEN prod
    ELSE halfbinomLoop(n, k, l + 1, (prod * (n + 1 - l)) \div l)

(* halfbinom with the loop one step short (range(1, k)) *)
halfbinomShort(n, k) ==
    IF n % 2 = 1 THEN None
    ELSE halfbinomLoop(n, k - 1, 1, 1) \div 2

(* Group.halfbinom *)
halfbinom(n, k) ==
    IF n % 2 = 1 THEN None
    ELSE halfbinomLoop(n, k, 1, 1) \div 2

(* Group.paired_combinations: the pairs up to and including the one whose  *)
(* count equals limit                                                      *)
paired_combinations(numbers, r, limit) ==
    LET combs == Combinations(numbers, r)
        cnt == IF limit \in 1..Len(combs) THEN limit ELSE Len(combs)
    IN  [c \in 1..cnt |-> <<combs[c], filtering(numbers, combs[c])>>]

(* range((size+1)//2, size) *)
SplitSizes(size) == [i \in 1..(size - ((size + 1) \div 2)) |-> ((size + 1) \div 2) + i - 1]

(* limits = (halfbinom(size, size//2), ) *)
Limits(size) == <<halfbinom(size, size \div 2)>>

(* zip_longest(range((size+1)//2, size), limits): the shorter one is       *)
(* filled with None                                                        *)
ZipLongest(a, b) ==
    LET n == IF Len(a) > Len(b) THEN Len(a) ELSE Len(b)
    IN  [i \in 1..n |-> << IF i <= Len(a) THEN a[i] ELSE None,
                           IF i <= Len(b) THEN b[i] ELSE None >>]

(* every (numbers1, numbers2) the two nested loops of                      *)
(* partition_into_unique_pairs look at, in order                           *)
RECURSIVE CandidatePairs(_, _, _)
CandidatePairs(numbers, zipped, i) ==
    IF i > Len(zipped) THEN <<>>
    ELSE paired_combinations(numbers, zipped[i][1], zipped[i][2])
         \o CandidatePairs(numbers, zipped, i + 1)

(* the body of the inner loop: skip a pair whose numbers1 was seen, else   *)
(* remember numbers1 and keep the pair                                     *)
RECURSIVE UniquePairs(_, _, _)
UniquePairs(pairs, i, unique_numbers) ==
    IF i > Len(pairs) THEN <<>>
    ELSE IF pairs[i][1] \in unique_numbers
         THEN UniquePairs(pairs, i + 1, unique_numbers)
         ELSE <<pairs[i]>>
              \o UniquePairs(pairs, i + 1, unique_numbers \cup {pairs[i][1]})

(* Group.partition_into_unique_pairs before the lookups: the retained      *)
(* (numbers1, numbers2) in the order they are yielded                      *)
partition_into_unique_pairs(numbers) ==
    IF Len(numbers) = 1 THEN <<>>
    ELSE UniquePairs(
             CandidatePairs(numbers,
                            ZipLongest(SplitSizes(Len(numbers)), Limits(Len(numbers))),
                            1),
             1, {})

(* ---------------- the dictionary all_groups ---------------- *)

(* numbers in all_groups *)
HasKey(groups, numbers) == \E i \in 1..Len(groups) : groups[i].numbers = numbers

(* all_groups[numbers] as a reference: the position of the Group *)
Lookup(groups, numbers) == CHOOSE i \in 1..Len(groups) : groups[i].numbers = numbers

(* no lookup of partition_into_unique_pairs raises KeyError *)
LookupsSucceed(numbers, groups) ==
    LET pairs == partition_into_unique_pairs(numbers)
    IN  \A p \in 1..Len(pairs) : HasKey(groups, pairs[p][1]) /\ HasKey(groups, pairs[p][2])

(* ---------------- Calculation ---------------- *)

(* Calculation.__init__ *)
Calculation(expression, result, is_singleton) ==
    [expr |-> expression, result |-> result, is_singleton |-> is_singleton]

(* Calculation.singleton *)
singleton(n) == Calculation(ToString(n), n, TRUE)

(* operations without the divisibility test on the quotient *)
operationsInexact(x, y) ==
    <<<<x + y, "+">>>>
    \o (IF x > y THEN <<<<x - y, "-">>>> ELSE <<>>)
    \o (IF y > 1 /\ x > 1 THEN <<<<x * y, "x">>>> ELSE <<>>)
    \o (IF y > 1 THEN <<<<x \div y, "/">>>> ELSE <<>>)

(* Calculation.operations *)
operations(x, y) ==
    <<<<x + y, "+">>>>
    \o (IF x > y THEN <<<<x - y, "-">>>> ELSE <<>>)
    \o (IF y > 1 /\ x > 1 THEN <<<<x * y, "x">>>> ELSE <<>>)
    \o (IF y > 1 /\ x % y = 0 THEN <<<<x \div y, "/">>>> ELSE <<>>)

(* the operand text of generate: parenthesised unless a singleton *)
Operand(calc) == IF calc.is_singleton THEN calc.expr ELSE "(" \o calc.expr \o ")"

(* Calculation.generate *)
generate(calca, calcb) ==
    LET hi == IF calca.result < calcb.result THEN calcb ELSE calca
        lo == IF calca.result < calcb.result THEN calca ELSE calcb
        ops == operations(hi.result, lo.result)
    IN  [k \in 1..Len(ops) |->
            Calculation(Operand(hi) \o " " \o ops[k][2] \o " " \o Operand(lo),
                        ops[k][1], FALSE)]

(* the concatenation of seqs[lo..hi], in order *)
RECURSIVE Flatten(_, _, _)
Flatten(seqs, lo, hi) ==
    IF lo > hi THEN <<>>
    ELSE IF lo = hi THEN seqs[lo]
    ELSE LET mid == (lo + hi) \div 2
         IN  Flatten(seqs, lo, mid) \o Flatten(seqs, mid + 1, hi)

(* product(group1.calculations, group2.calculations) through generate *)
PairCalculations(calcs1, calcs2) ==
    LET n2 == Len(calcs2)
        each == [q \in 1..(Len(calcs1) * n2) |->
                    generate(calcs1[((q - 1) \div n2) + 1], calcs2[((q - 1) % n2) + 1])]
    IN  Flatten(each, 1, Len(each))

(* Group.perform_calculations *)
perform_calculations(numbers, partitions, groups) ==
    IF Len(numbers) = 1 THEN <<singleton(numbers[1])>>
    ELSE LET each == [p \in 1..Len(partitions) |->
                         PairCalculations(groups[partitions[p][1]].calculations,
                                          groups[partitions[p][2]].calculations)]
         IN  Flatten(each, 1, Len(each))

(* Group.__init__, when every lookup succeeds *)
Group(numbers, groups) ==
    LET pairs == partition_into_unique_pairs(numbers)
        partitions == [p \in 1..Len(pairs) |->
                          <<Lookup(groups, pairs[p][1]), Lookup(groups, pairs[p][2])>>]
    IN  [numbers |-> numbers,
         size |-> Len(numbers),
         partitions |-> partitions,
         calculations |-> perform_calculations(numbers, partitions, groups)]

(* ---------------- Solutions ---------------- *)

(* Solutions.unique_groups as one computation: the two nested loops from   *)
(* the combination idx of size r onwards                                   *)
RECURSIVE unique_groups(_, _, _, _)
unique_groups(numbers, r, idx, groups) ==
    IF idx = <<>>
    THEN IF r < Len(numbers)
         THEN unique_groups(numbers, r + 1, FirstComb(r + 1), groups)
         ELSE groups
    ELSE IF HasKey(groups, Pick(numbers, idx))
         THEN unique_groups(numbers, r, NextComb(idx, Len(numbers)), groups)
         ELSE unique_groups(numbers, r, NextComb(idx, Len(numbers)),
                            Append(groups, Group(Pick(numbers, idx), groups)))

(* list(Solutions(numbers).walk()) *)
walk(numbers) ==
    LET groups == unique_groups(numbers, 1, FirstComb(1), <<>>)
        each == [g \in 1..Len(groups) |-> groups[g].calculations]
    IN  Flatten(each, 1, Len(each))

(* ---------------- the search pass of countdown_solver ---------------- *)

(* the loop body with a tie put in front of the retained list *)
SearchStepPrepend(st, calculation) ==
    LET diff == Abs(calculation.result - target)
    IN  IF diff <= st.smallest_difference
        THEN IF diff < st.smallest_difference
             THEN [smallest_difference |-> diff, bestresults |-> <<calculation>>]
             ELSE [smallest_difference |-> st.smallest_difference,
                   bestresults |-> <<calculation>> \o st.bestresults]
        ELSE st

(* the body of the loop over solutions.walk() *)
SearchStep(st, calculation) ==
    LET diff == Abs(calculation.result - target)
    IN  IF diff <= st.smallest_difference
        THEN IF diff < st.smallest_difference
             THEN [smallest_difference |-> diff, bestresults |-> <<calculation>>]
             ELSE [smallest_difference |-> st.smallest_difference,
                   bestresults |-> Append(st.bestresults, calculation)]
        ELSE st

(* the loop body applied to calcs[lo..hi] from left to right: the left     *)
(* half is run to its end before the right half starts from its outcome    *)
RECURSIVE SearchLoop(_, _, _, _)
SearchLoop(st, calcs, lo, hi) ==
    IF lo > hi THEN st
    ELSE IF lo = hi THEN SearchStep(st, calcs[lo])
    ELSE LET mid == (lo + hi) \div 2
             left == SearchLoop(st, calcs, lo, mid)
         IN  IF left = st
             THEN SearchLoop(st, calcs, mid + 1, hi)
             ELSE SearchLoop(left, calcs, mid + 1, hi)

(* ---------------- the state machine ---------------- *)

(* sum(numbers) *)
RECURSIVE Sum(_)
Sum(numbers) == IF numbers = <<>> THEN 0 ELSE Head(numbers) + Sum(Tail(numbers))

InputTuples == {t \in UNION {[1..n -> 1..MaxVal] : n \in 1..MaxLen} : Sum(t) <= MaxSum}

Targets == 0..MaxTarget

(* countdown_solver called with a target and any numbers on the command    *)
(* line (the "for any numbers" variant of unsorted_numbers)                *)
Init ==
    /\ argv \in InputTuples
    /\ target \in Targets
    /\ all_numbers = <<>>
    /\ m = 0
    /\ comb = <<>>
    /\ all_groups = <<>>
    /\ pc = "parse"
    /\ gi = 0
    /\ smallest_difference = 0
    /\ bestresults = <<>>

(* Solutions(numbers) handed a tuple in any order, then searched for a     *)
(* target: the core without the sort of countdown_solver                   *)
InitCore ==
    /\ argv \in InputTuples
    /\ target \in Targets
    /\ all_numbers = argv
    /\ m = 1
    /\ comb = FirstComb(1)
    /\ all_groups = <<>>
    /\ pc = "build"
    /\ gi = 0
    /\ smallest_difference = 0
    /\ bestresults = <<>>

(* numbers = tuple(sorted(unsorted_numbers, reverse=True)); Solutions.__init__ *)
ParseArgs ==
    /\ pc = "parse"
    /\ all_numbers' = SortedDesc(argv)
    /\ m' = 1
    /\ comb' = FirstComb(1)
    /\ pc' = "build"
    /\ UNCHANGED <<argv, target, all_groups, gi, smallest_difference, bestresults>>

(* unique_groups, inner loop: the combination is already a key: continue *)
UniqueGroupsSkip ==
    /\ pc = "build"
    /\ comb # <<>>
    /\ HasKey(all_groups, Pick(all_numbers, comb))
    /\ comb' = NextComb(comb, Len(all_numbers))
    /\ UNCHANGED <<argv, target, all_numbers, m, all_groups, pc, gi,
                   smallest_difference, bestresults>>

(* unique_groups, inner loop: a new key: construct its Group and store it; *)
(* a failed lookup inside the constructor ends the run with KeyError       *)
UniqueGroupsNew ==
    /\ pc = "build"
    /\ comb # <<>>
    /\ ~HasKey(all_groups, Pick(all_numbers, comb))
    /\ LET numbers == Pick(all_numbers, comb)
       IN  IF LookupsSucceed(numbers, all_groups)
           THEN /\ all_groups' = Append(all_groups, Group(numbers, all_groups))
                /\ comb' = NextComb(comb, Len(all_numbers))
                /\ pc' = pc
           ELSE /\ pc' = "KeyError"
                /\ UNCHANGED <<all_groups, comb>>
    /\ UNCHANGED <<argv, target, all_numbers, m, gi, smallest_difference, bestresults>>

(* unique_groups, outer loop: combinations of size m are exhausted *)
NextSize ==
    /\ pc = "build"
    /\ comb = <<>>
    /\ m < Len(all_numbers)
    /\ m' = m + 1
    /\ comb' = FirstComb(m + 1)
    /\ UNCHANGED <<argv, target, all_numbers, all_groups, pc, gi,
                   smallest_difference, bestresults>>

(* unique_groups returns; smallest_difference = target; bestresults = [] *)
StartSearch ==
    /\ pc = "build"
    /\ comb = <<>>
    /\ m = Len(all_numbers)
    /\ pc' = "walk"
    /\ gi' = 1
    /\ smallest_difference' = target
    /\ bestresults' = <<>>
    /\ UNCHANGED <<argv, target, all_numbers, m, comb, all_groups>>

(* walk(): yield from the next group's calculations, each one run through  *)
(* the loop body of countdown_solver                                       *)
WalkGroup ==
    /\ pc = "walk"
    /\ gi <= Len(all_groups)
    /\ LET calcs == all_groups[gi].calculations
           st == SearchLoop([smallest_difference |-> smallest_difference,
                             bestresults |-> bestresults],
                            calcs, 1, Len(calcs))
       IN  /\ smallest_difference' = st.smallest_difference
           /\ bestresults' = st.bestresults
    /\ gi' = gi + 1
    /\ UNCHANGED <<argv, target, all_numbers, m, comb, all_groups, pc>>

(* walk() is exhausted: output(target, smallest_difference, bestresults) *)
Output ==
    /\ pc = "walk"
    /\ gi > Len(all_groups)
    /\ pc' = "done"
    /\ UNCHANGED <<argv, target, all_numbers, m, comb, all_groups, gi,
                   smallest_difference, bestresults>>

NextCore ==
    \/ UniqueGroupsSkip
    \/ UniqueGroupsNew
    \/ NextSize
    \/ StartSearch
    \/ WalkGroup
    \/ Output

Next ==
    \/ ParseArgs
    \/ NextCore

Spec == Init /\ [][Next]_vars

SpecCore == InitCore /\ [][NextCore]_vars

(* ---------------- vocabulary of the properties ---------------- *)

(* the multiset of a tuple of numbers: how often each value occurs *)
Content(numbers) ==
    [v \in 1..(MaxVal + 1) |-> Cardinality({i \in 1..Len(numbers) : numbers[i] = v})]

(* the numbers of the two sides of partition p of Group G *)
Side1(G, p) == all_groups[G.partitions[p][1]].numbers
Side2(G, p) == all_groups[G.partitions[p][2]].numbers

(* partition p of G as an unordered pair of multisets *)
PairContent(G, p) == {Content(Side1(G, p)), Content(Side2(G, p))}

(* the elements of numbers at the positions in S, in order *)
RECURSIVE AtPositions(_, _, _)
AtPositions(numbers, S, i) ==
    IF i > Len(numbers) THEN <<>>
    ELSE (IF i \in S THEN <<numbers[i]>> ELSE <<>>) \o AtPositions(numbers, S, i + 1)

(* the non-empty proper subsets of the positions of a tuple *)
ProperSplits(numbers) == (SUBSET (1..Len(numbers))) \ {{}, 1..Len(numbers)}

(* the positions of the built Groups in all_groups *)
Groups == 1..Len(all_groups)

(* everything walk() yields, in order *)
Walk ==
    LET each == [g \in 1..Len(all_groups) |-> all_groups[g].calculations]
    IN  Flatten(each, 1, Len(each))

(* ---------------- C2 ---------------- *)

(* C2: the partitions of a Group never contain the same unordered pair of  *)
(* sub-multisets at two different positions, neither in the same order nor *)
(* mirrored.                                                               *)
C2_PartitionsDuplicateFree ==
    \A g \in Groups : LET G == all_groups[g] IN
        \A p, q \in 1..Len(G.partitions) :
            p < q => PairContent(G, p) # PairContent(G, q)

(* ---------------- C3 ---------------- *)

(* C3: the partitions of a Group of size >= 2 are complete: every split of *)
(* its positions into two non-empty parts appears, by content and in one   *)
(* of its two orders, among the partitions; for an even size the limit on  *)
(* the half-size combinations loses no split.                              *)
C3_PartitionsComplete ==
    \A g \in Groups :
        LET G == all_groups[g]
            kept == {PairContent(G, p) : p \in 1..Len(G.partitions)}
        IN  G.size >= 2 =>
                \A S \in ProperSplits(G.numbers) :
                    {Content(AtPositions(G.numbers, S, 1)),
                     Content(AtPositions(G.numbers, (1..G.size) \ S, 1))} \in kept

(* a Group of even size whose half-size enumeration was cut by the limit   *)
(* and that kept a pair of two halves                                      *)
C3_Witness ==
    \E g \in Groups : LET G == all_groups[g] IN
        /\ G.size = 4
        /\ halfbinom(G.size, G.size \div 2) = 3
        /\ \E p \in 1..Len(G.partitions) : Len(Side1(G, p)) = 2 /\ Len(Side2(G, p)) = 2
        /\ \E p \in 1..Len(G.partitions) : Len(Side1(G, p)) = 3 /\ Len(Side2(G, p)) = 1

(* ---------------- C4 ---------------- *)

(* C4: for every partition (A, B) of a Group G the sizes of A and B add up *)
(* to the size of G, both are non-empty, and the multiset union of their   *)
(* numbers is the multiset of G's numbers.                                 *)
C4_PartitionIsSplit ==
    \A g \in Groups : LET G == all_groups[g] IN
        \A p \in 1..Len(G.partitions) :
            /\ Len(Side1(G, p)) + Len(Side2(G, p)) = Len(G.numbers)
            /\ Len(Side1(G, p)) >= 1
            /\ Len(Side2(G, p)) >= 1
            /\ \A v \in 1..(MaxVal + 1) :
                   Content(Side1(G, p))[v] + Content(Side2(G, p))[v] = Content(G.numbers)[v]

(* a Group with a repeated value of which each side of a partition got a   *)
(* copy: the complement had to respect multiplicity                        *)
C4_Witness ==
    \E g \in Groups : LET G == all_groups[g] IN
        \E p \in 1..Len(G.partitions) :
            \E v \in 1..MaxVal :
                /\ Content(G.numbers)[v] >= 2
                /\ Content(Side1(G, p))[v] >= 1
                /\ Content(Side2(G, p))[v] >= 1

(* ---------------- C5 ---------------- *)

(* C5: for an input in any order, no two keys of all_groups have the same  *)
(* content as multisets.                                                   *)
C5_KeysDistinctAsMultisets ==
    \A g, h \in 1..Len(all_groups) :
        g # h => Content(all_groups[g].numbers) # Content(all_groups[h].numbers)

(* ---------------- C10 ---------------- *)

(* C10: no lookup during the build fails: the KeyError state is never      *)
(* reached, and both sides of every partition are Groups that were         *)
(* inserted earlier and are strictly smaller.                              *)
C10_LookupsSucceed ==
    /\ pc # "KeyError"
    /\ \A g \in 1..Len(all_groups) :
           \A p \in 1..Len(all_groups[g].partitions) :
               \A side \in 1..2 :
                   LET ref == all_groups[g].partitions[p][side]
                   IN  /\ ref < g
                       /\ all_groups[ref].size < all_groups[g].size

(* the whole index of an input that is not in descending order and has a   *)
(* repeated value was built, up to a Group of size 3 or more               *)
C10_Witness ==
    /\ pc = "walk"
    /\ \E i \in 1..(Len(all_numbers) - 1) : all_numbers[i] < all_numbers[i + 1]
    /\ \E v \in 1..MaxVal : Content(all_numbers)[v] >= 2
    /\ \E g \in Groups : all_groups[g].size >= 3 /\ Len(all_groups[g].partitions) >= 3

(* ---------------- C1 ---------------- *)

(* |result - target| of a Calculation *)
Diff(calculation) == Abs(calculation.result - target)

(* the least difference among everything walk() yields *)
MinDiff ==
    CHOOSE d \in {Diff(Walk[i]) : i \in 1..Len(Walk)} :
        \A i \in 1..Len(Walk) : d <= Diff(Walk[i])

(* C1: when the search pass has ended, smallest_difference is the minimum  *)
(* of |result - target| over all Calculations of walk(), and bestresults   *)
(* holds exactly the Calculations at that minimum, every one of them.      *)
C1_SearchFindsMinimum ==
    pc = "done" =>
        /\ smallest_difference = MinDiff
        /\ bestresults = SelectSeq(Walk, LAMBDA c : Diff(c) = MinDiff)

(* ---------------- C6 ---------------- *)

(* the (result, expression) pairs of a list of Calculations as a multiset *)
PairBag(calcs) ==
    LET pairs == [i \in 1..Len(calcs) |-> <<calcs[i].result, calcs[i].expr>>]
    IN  [e \in {pairs[i] : i \in 1..Len(pairs)} |->
            Cardinality({i \in 1..Len(pairs) : pairs[i] = e})]

(* every ordering of the multiset of numbers *)
Orderings(numbers) ==
    {s \in [1..Len(numbers) -> {numbers[i] : i \in 1..Len(numbers)}] :
        Content(s) = Content(numbers)}

(* C6: reordering the input does not change which Calculations walk()      *)
(* yields: for every ordering of the same numbers the (result, expression) *)
(* pairs are the same collection, up to the order they are yielded in.     *)
C6_OrderIrrelevant ==
    pc = "done" =>
        \A other \in Orderings(all_numbers) :
            PairBag(walk(other)) = PairBag(Walk)

(* ---------------- C7 ---------------- *)

(* C7: no two Calculations yielded by walk(), and so no two of the best    *)
(* results, have the same expression text.                                 *)
C7_ExpressionsUnique ==
    pc = "done" =>
        /\ \A i, j \in 1..Len(bestresults) :
               i < j => bestresults[i].expr # bestresults[j].expr
        /\ Cardinality({Walk[i].expr : i \in 1..Len(Walk)}) = Len(Walk)

(* ---------------- C8 ---------------- *)

(* what generate hands to operations for the pair (calca, calcb) *)
Hi(calca, calcb) == IF calca.result < calcb.result THEN calcb.result ELSE calca.result
Lo(calca, calcb) == IF calca.result < calcb.result THEN calca.result ELSE calcb.result

(* the Group constructed last *)
LastGroup == all_groups[Len(all_groups)]

(* C8: every Calculation of every Group has a strictly positive integer    *)
(* result, and every division generate emits while a Group is built is     *)
(* exact: quotient times divisor is the dividend.                          *)
C8_ResultsPositiveExact ==
    /\ \A g \in Groups :
           \A k \in 1..Len(all_groups[g].calculations) :
               all_groups[g].calculations[k].result \in Nat \ {0}
    /\ (pc = "build" /\ all_groups # <<>>) =>
           \A p \in 1..Len(LastGroup.partitions) :
               \A c1 \in 1..Len(all_groups[LastGroup.partitions[p][1]].calculations) :
                   \A c2 \in 1..Len(all_groups[LastGroup.partitions[p][2]].calculations) :
                       LET calca == all_groups[LastGroup.partitions[p][1]].calculations[c1]
                           calcb == all_groups[LastGroup.partitions[p][2]].calculations[c2]
                           ops == operations(Hi(calca, calcb), Lo(calca, calcb))
                       IN  \A k \in 1..Len(ops) :
                               /\ ops[k][1] >= 1
                               /\ ops[k][2] = "/" =>
                                      ops[k][1] * Lo(calca, calcb) = Hi(calca, calcb)

(* a Group built through a chain of steps holds a quotient of two derived  *)
(* results, and a pair whose division is not exact was passed over         *)
C8_Witness ==
    /\ pc = "build"
    /\ all_groups # <<>>
    /\ LastGroup.size >= 3
    /\ \E k \in 1..Len(LastGroup.calculations) :
           LastGroup.calculations[k].expr = "(3 + 3) / 2"
    /\ \E p \in 1..Len(LastGroup.partitions) :
           \E c1 \in 1..Len(all_groups[LastGroup.partitions[p][1]].calculations) :
               \E c2 \in 1..Len(all_groups[LastGroup.partitions[p][2]].calculations) :
                   LET calca == all_groups[LastGroup.partitions[p][1]].calculations[c1]
                       calcb == all_groups[LastGroup.partitions[p][2]].calculations[c2]
                   IN  /\ Lo(calca, calcb) > 1
                       /\ Hi(calca, calcb) % Lo(calca, calcb) # 0

(* ---------------- C9 ---------------- *)

(* how many input numbers a Calculation uses: the size of its Group *)
NumbersUsed(calculation) ==
    CHOOSE n \in 1..Len(all_numbers) :
        \E g \in Groups :
            /\ all_groups[g].size = n
            /\ \E k \in 1..Len(all_groups[g].calculations) :
                   all_groups[g].calculations[k] = calculation

(* NumbersUsed of each entry of bestresults, in order *)
BestSizes ==
    LET each == [i \in 1..Len(bestresults) |-> <<NumbersUsed(bestresults[i])>>]
    IN  Flatten(each, 1, Len(each))

(* C9: results with fewer numbers are listed first: a Calculation earlier  *)
(* in bestresults uses no more input numbers than a later one, and the     *)
(* Groups are walked in creation order, which is non-decreasing in size.   *)
C9_FewerNumbersFirst ==
    /\ \A g, h \in 1..Len(all_groups) :
           g < h => all_groups[g].size <= all_groups[h].size
    /\ LET used == BestSizes
       IN  \A i, j \in 1..Len(used) : i < j => used[i] <= used[j]

(* the search ended with best results that use different numbers of inputs *)
C9_Witness ==
    /\ pc = "done"
    /\ LET used == BestSizes
       IN  \E i, j \in 1..Len(used) : i < j /\ used[i] < used[j]

====
